---- MODULE Spec2Model ----
(***************************************************************************)
(* A model of recurrent/recurrence_rule.py: the RecurrenceRule value       *)
(* object (construction from a raw RRULE text or a natural-language        *)
(* phrase, the granularity gate, the preview of occurrences), its          *)
(* adjust_original_datetime operation, and the two serialisation helpers.  *)
(*                                                                         *)
(* Representation.                                                         *)
(*   - A str is a sequence of one-character strings, so that upper(),      *)
(*     "in", splitlines() and split() are computed character by character. *)
(*   - A datetime is [w, tz]: w is the wall-clock reading in seconds since *)
(*     00:00 of day 0 of the model calendar (day 0 is a Monday), tz is     *)
(*     "naive" or the key of a zone.  A calendar date is a day number.     *)
(*   - A date-time literal of a rule text is written <day>T<hh>[Z]: the    *)
(*     day number stands for the YYYYMMDD part and hh for HHMMSS.          *)
(*   - An optional value (None or x) is <<>> or <<x>>; a by-list that is   *)
(*     None or empty is <<>> (the code only tests its truthiness).         *)
(***************************************************************************)
EXTENDS Integers, Sequences, FiniteSets, TLC

\* ------------------------------------------------------------------ bounds

\* The last day of the model calendar: it plays datetime.MAXYEAR, where the
\* expansion of an unbounded rule stops.
MaxDay == 8

\* The largest num_preview a caller passes.
MaxPreview == 2

\* ------------------------------------------------------------------- text

LowerChars == <<"a","b","c","d","e","f","g","h","i","j","k","l","m","n","o","p","q","r","s","t","u","v","w","x","y","z">>

UpperChars == <<"A","B","C","D","E","F","G","H","I","J","K","L","M","N","O","P","Q","R","S","T","U","V","W","X","Y","Z">>

Digits == <<"0","1","2","3","4","5","6","7","8","9">>

\* str.upper() of one character.
UpperChar(c) ==
    IF \E i \in 1..Len(LowerChars) : LowerChars[i] = c
    THEN UpperChars[CHOOSE i \in 1..Len(LowerChars) : LowerChars[i] = c]
    ELSE c

\* str.upper()
upper(s) == [i \in 1..Len(s) |-> UpperChar(s[i])]

\* sub in s: the case-sensitive substring test.
Contains(sub, s) ==
    \E i \in 1..(Len(s) - Len(sub) + 1) : SubSeq(s, i, i + Len(sub) - 1) = sub

\* s.startswith(p)
StartsWith(s, p) == Len(s) >= Len(p) /\ SubSeq(s, 1, Len(p)) = p

\* s.split(c) for a one-character separator: empty parts are kept.
SplitOn(s, c) ==
    LET RECURSIVE go(_, _, _)
        go(i, cur, acc) ==
            IF i > Len(s) THEN Append(acc, cur)
            ELSE IF s[i] = c THEN go(i + 1, <<>>, Append(acc, cur))
            ELSE go(i + 1, Append(cur, s[i]), acc)
    IN go(1, <<>>, <<>>)

\* The sequence without its empty members.
NonEmpty(parts) ==
    LET RECURSIVE go(_, _)
        go(i, acc) ==
            IF i > Len(parts) THEN acc
            ELSE go(i + 1, IF parts[i] = <<>> THEN acc ELSE Append(acc, parts[i]))
    IN go(1, <<>>)

\* str.splitlines(): the text cut at its line breaks, no empty last line.
splitlines(s) ==
    LET parts == SplitOn(s, "\n")
    IN IF parts[Len(parts)] = <<>> THEN SubSeq(parts, 1, Len(parts) - 1) ELSE parts

\* str.split() with no argument: cut at runs of white space (here " " and
\* the line break), no empty parts.
split(s) ==
    NonEmpty(SplitOn([i \in 1..Len(s) |-> IF s[i] = "\n" THEN " " ELSE s[i]], " "))

\* "\n".join(lines)
join(lines) ==
    LET RECURSIVE go(_, _)
        go(i, acc) ==
            IF i > Len(lines) THEN acc
            ELSE go(i + 1, IF i = 1 THEN lines[i] ELSE acc \o <<"\n">> \o lines[i])
    IN go(1, <<>>)

\* int(s) of a digit string: <<n>>, or <<>> when s is not one (ValueError).
ParseInt(s) ==
    LET DigitOf(c) == (CHOOSE i \in 1..Len(Digits) : Digits[i] = c) - 1
        RECURSIVE go(_, _)
        go(i, acc) == IF i > Len(s) THEN acc ELSE go(i + 1, 10 * acc + DigitOf(s[i]))
    IN IF s # <<>> /\ \A i \in 1..Len(s) : \E j \in 1..Len(Digits) : Digits[j] = s[i]
       THEN <<go(1, 0)>>
       ELSE <<>>

\* -------------------------------------------------------------- datetimes

Hour == 60 * 60

DAY == 24 * Hour

WEEK == 7 * DAY

\* The zones of the model: a naive datetime, UTC, a zone east of UTC with
\* a fixed offset, and a zone west of UTC with a daylight-saving step.
Naive == "naive"

UTC == "UTC"

Brisbane == "Australia/Brisbane"

NewYork == "America/New_York"

\* Wall-clock reading at which NewYork's clocks have moved from 02:00 to
\* 03:00; a reading inside the gap keeps the standard offset (fold = 0).
DstStart == 2 * DAY + 3 * Hour

datetime(day, hour, tz) == [w |-> day * DAY + hour * Hour, tz |-> tz]

\* datetime.utcoffset(), in seconds; only for an aware datetime.
utcoffset(dt) ==
    CASE dt.tz = UTC -> 0
      [] dt.tz = Brisbane -> 10 * Hour
      [] dt.tz = NewYork -> IF dt.w < DstStart THEN 0 - 5 * Hour ELSE 0 - 4 * Hour

aware(dt) == dt.tz # Naive

\* datetime.astimezone(ZoneInfo("UTC"))
astimezone_utc(dt) == [w |-> dt.w - utcoffset(dt), tz |-> UTC]

\* datetime.date(): the calendar date of the wall-clock reading.
date(dt) == dt.w \div DAY

\* datetime.weekday(): 0 is Monday.
weekday(dt) == date(dt) % 7

\* The instant two aware datetimes of different zones are compared by; the
\* reading itself for a naive one.
Instant(dt) == IF aware(dt) THEN dt.w - utcoffset(dt) ELSE dt.w

\* A shift that converts an aware datetime to UTC before it adds the days.
plus_days_utc(dt, days) ==
    IF aware(dt) THEN [w |-> Instant(dt) + days * DAY, tz |-> UTC]
    ELSE [w |-> dt.w + days * DAY, tz |-> dt.tz]

\* datetime + timedelta(days): wall-clock arithmetic, the zone is kept.
plus_days(dt, days) == [w |-> dt.w + days * DAY, tz |-> dt.tz]

\* a < b of two datetimes that may be compared (both naive or both aware):
\* the readings when the zone is the same, the instants otherwise.
dt_lt(a, b) == IF a.tz = b.tz THEN a.w < b.w ELSE Instant(a) < Instant(b)

\* a == b: never equal when exactly one is naive.
dt_eq(a, b) ==
    IF a.tz = b.tz THEN a.w = b.w
    ELSE aware(a) /\ aware(b) /\ Instant(a) = Instant(b)

\* b - a as Python computes it: the difference of the readings when the
\* zone is the same, of the instants otherwise.
dt_sub(b, a) == IF a.tz = b.tz THEN b.w - a.w ELSE Instant(b) - Instant(a)

\* datetime.isoformat(): the text of the reading and of the offset, written
\* as the triple of its parts; the zone's key is not part of it.
isoformat(dt) ==
    [iso |-> <<date(dt), dt.w % DAY, IF aware(dt) THEN <<utcoffset(dt)>> ELSE <<>>>>]


hour(dt) == (dt.w % DAY) \div Hour

minute(dt) == (dt.w % Hour) \div 60

second(dt) == dt.w % 60

\* A value returned, or an exception raised.
Ok(v) == [exc |-> "", val |-> v]

Raise(e) == [exc |-> e]

\* The parse of a date-time literal <day>T<hh>[Z] (upper case, as rrulestr
\* hands it over): a naive datetime, or one in UTC with the Z suffix.
ParseDate(s) ==
    LET z == s # <<>> /\ s[Len(s)] = "Z"
        body == IF z THEN SubSeq(s, 1, Len(s) - 1) ELSE s
        parts == SplitOn(body, "T")
        d == IF Len(parts) = 2 THEN ParseInt(parts[1]) ELSE <<>>
        h == IF Len(parts) = 2 /\ Len(parts[2]) = 2 THEN ParseInt(parts[2]) ELSE <<>>
    IN IF d # <<>> /\ h # <<>> /\ h[1] < 24
       THEN Ok(datetime(d[1], h[1], IF z THEN UTC ELSE Naive))
       ELSE Raise("ValueError")

\* ------------------------------------------------- dateutil's rule model

FREQNAMES == <<<<"Y","E","A","R","L","Y">>, <<"M","O","N","T","H","L","Y">>, <<"W","E","E","K","L","Y">>, <<"D","A","I","L","Y">>,
               <<"H","O","U","R","L","Y">>, <<"M","I","N","U","T","E","L","Y">>, <<"S","E","C","O","N","D","L","Y">>>>

\* dateutil numbers the frequencies from 0: FREQNAMES[freq] in Python is
\* FREQNAMES[freq + 1] here.
YEARLY == 0

MONTHLY == 1

WEEKLY == 2

DAILY == 3

HOURLY == 4

MINUTELY == 5

SECONDLY == 6

\* The members of a set of integers in ascending order.
SortedSeq(S) ==
    LET RECURSIVE go(_, _)
        go(rest, acc) ==
            IF rest = {} THEN acc
            ELSE LET m == CHOOSE x \in rest : \A y \in rest : x <= y
                 IN go(rest \ {m}, Append(acc, m))
    IN go(S, <<>>)

Range(seq) == {seq[i] : i \in 1..Len(seq)}

\* The month and the day of the month of a datetime, in a model calendar
\* of twelve months of 28 days.
month(dt) == ((date(dt) \div 28) % 12) + 1

monthday(dt) == (date(dt) % 28) + 1

\* rrule(freq, dtstart, interval, count, until, byhour): the constructor.
\* It fills the by-lists a rule leaves out from dtstart, and refuses an
\* UNTIL whose awareness differs from dtstart's.
rrule(freq, dtstart, interval, count, until, byhour) ==
    IF until # <<>> /\ (aware(until[1]) # aware(dtstart))
    THEN Raise("ValueError")
    ELSE Ok([kind |-> "rrule",
             _freq |-> freq,
             _dtstart |-> dtstart,
             _interval |-> interval,
             _count |-> count,
             _until |-> until,
             _byweekday |-> IF freq = WEEKLY THEN <<weekday(dtstart)>> ELSE <<>>,
             _bymonthday |-> IF freq <= MONTHLY THEN <<monthday(dtstart)>> ELSE <<>>,
             _bymonth |-> IF freq = YEARLY THEN <<month(dtstart)>> ELSE <<>>,
             _bysetpos |-> <<>>,
             _byhour |-> IF byhour # <<>> THEN SortedSeq(Range(byhour))
                         ELSE IF freq < HOURLY THEN <<hour(dtstart)>> ELSE <<>>,
             _byminute |-> IF freq < MINUTELY THEN <<minute(dtstart)>> ELSE <<>>,
             _bysecond |-> IF freq < SECONDLY THEN <<second(dtstart)>> ELSE <<>>])

\* The step of a frequency, in seconds, for the frequencies WEEKLY and
\* finer that the rule texts of the model use.
FreqStep(freq) ==
    CASE freq = WEEKLY -> WEEK
      [] freq = DAILY -> DAY
      [] freq = HOURLY -> Hour
      [] freq = MINUTELY -> 60
      [] freq = SECONDLY -> 1

\* The candidates of a rule, numbered from 1 in the order rrule._iter
\* visits them, period after period: a daily or weekly rule has one per
\* member of its BYHOUR list on the day of each period, a finer rule the
\* reading of each period itself.
PerPeriod(r) == IF r._freq < HOURLY THEN Len(r._byhour) ELSE 1

PeriodBase(r, i) ==
    r._dtstart.w + ((i - 1) \div PerPeriod(r)) * r._interval * FreqStep(r._freq)

Candidate(r, i) ==
    IF r._freq < HOURLY
    THEN [w |-> (PeriodBase(r, i) \div DAY) * DAY
                  + r._byhour[((i - 1) % PerPeriod(r)) + 1] * Hour
                  + r._byminute[1] * 60 + r._bysecond[1],
          tz |-> r._dtstart.tz]
    ELSE [w |-> PeriodBase(r, i), tz |-> r._dtstart.tz]

\* The number of candidates up to the end of the calendar.
NumCandidates(r) ==
    IF r._dtstart.w >= (MaxDay + 1) * DAY THEN 0
    ELSE ((((MaxDay + 1) * DAY - 1 - r._dtstart.w) \div (r._interval * FreqStep(r._freq))) + 1)
            * PerPeriod(r)

\* Whether the by-lists of a rule finer than daily admit a candidate.
InList(list, x) == list = <<>> \/ x \in Range(list)

Admitted(r, dt) ==
    \/ r._freq < HOURLY
    \/ (InList(r._byhour, hour(dt)) /\ InList(r._byminute, minute(dt))
        /\ InList(r._bysecond, second(dt)))

\* The candidate is one rrule._iter yields: admitted and not before dtstart.
Yields(r, dt) == Admitted(r, dt) /\ ~dt_lt(dt, r._dtstart)

\* The candidate ends the iteration: it is the first one after UNTIL.
AfterUntil(r, dt) == r._until # <<>> /\ Admitted(r, dt) /\ dt_lt(r._until[1], dt)

\* The number of the last candidate before the one that ends the iteration.
LastCandidate(r, N) ==
    IF \E i \in 1..N : AfterUntil(r, Candidate(r, i))
    THEN (CHOOSE i \in 1..N : /\ AfterUntil(r, Candidate(r, i))
                              /\ \A j \in 1..(i - 1) : ~AfterUntil(r, Candidate(r, j))) - 1
    ELSE N

\* The occurrences among the candidates lo..hi, in order.
RECURSIVE YieldRange(_, _, _)
YieldRange(r, lo, hi) ==
    IF lo > hi THEN <<>>
    ELSE IF lo = hi THEN (IF Yields(r, Candidate(r, lo)) THEN <<Candidate(r, lo)>> ELSE <<>>)
    ELSE YieldRange(r, lo, (lo + hi) \div 2) \o YieldRange(r, ((lo + hi) \div 2) + 1, hi)

Min(a, b) == IF a < b THEN a ELSE b

Take(seq, n) == SubSeq(seq, 1, Min(n, Len(seq)))

\* The first `want` occurrences among the candidates 1..last: the range
\* looked at is doubled until it holds them or is all there is.
RECURSIVE Grow(_, _, _, _)
GrowStep(r, P, last, want, got) ==
    IF Len(got) >= want \/ P >= last THEN Take(got, want) ELSE Grow(r, 2 * P, last, want)

Grow(r, P, last, want) == GrowStep(r, P, last, want, YieldRange(r, 1, Min(P, last)))

IterFrom(r, last, want) == Grow(r, Min(want, last) + 1, last, want)

\* The first `limit` occurrences of rrule._iter, the generator of one
\* rule's occurrences in order, which is all that islice draws from it.
\* The loop visits the candidates of every period up to the end of the
\* calendar, yields those the by-lists admit that are not before dtstart,
\* and stops at the first one after UNTIL or when COUNT occurrences are out.
iter_rrule(r, limit) ==
    IterFrom(r, LastCandidate(r, NumCandidates(r)),
             IF r._count # <<>> THEN Min(r._count[1], limit) ELSE limit)

\* The concatenation of a sequence of sequences.
Flatten(seqs) ==
    LET RECURSIVE go(_, _)
        go(i, acc) == IF i > Len(seqs) THEN acc ELSE go(i + 1, acc \o seqs[i])
    IN go(1, <<>>)

\* sys.maxsize, as far as the model counts.
sys_maxsize == 2147483647

\* rr[:n] of a single rule, rrulebase.__getitem__ of a slice:
\* list(islice(self, 0, n or sys.maxsize)), so that a stop of 0 is no stop
\* at all.
getitem_slice(rr, n) == iter_rrule(rr, IF n # 0 THEN n ELSE sys_maxsize)

\* Of a sequence of results, the first exception, or Ok(the values).
FirstError(got) ==
    IF \E i \in 1..Len(got) : got[i].exc # ""
    THEN got[CHOOSE i \in 1..Len(got) : got[i].exc # "" /\ \A j \in 1..(i - 1) : got[j].exc = ""]
    ELSE Ok([i \in 1..Len(got) |-> got[i].val])

\* The _handle_NAME methods of rrulestr: one NAME=VALUE of a rule put into
\* the keyword arguments of rrule().  The rule texts of the model use FREQ,
\* INTERVAL, COUNT, UNTIL and BYHOUR; any other name is refused as an
\* unknown one is.
handle_ints(kw, ints) ==
    IF ints.exc # "" THEN Raise("ValueError") ELSE [kw EXCEPT !.byhour = ints.val]

handle_until(kw, dt) ==
    IF dt.exc # "" THEN Raise("ValueError") ELSE [kw EXCEPT !.until = <<dt.val>>]

int_of(s) == IF ParseInt(s) # <<>> THEN Ok(ParseInt(s)[1]) ELSE Raise("ValueError")

handle(kw, name, val) ==
    CASE name = <<"F","R","E","Q">> ->
           IF \E f \in 1..Len(FREQNAMES) : FREQNAMES[f] = val
           THEN [kw EXCEPT !.freq = <<(CHOOSE f \in 1..Len(FREQNAMES) : FREQNAMES[f] = val) - 1>>]
           ELSE Raise("ValueError")
      [] name = <<"I","N","T","E","R","V","A","L">> ->
           IF ParseInt(val) # <<>> THEN [kw EXCEPT !.interval = ParseInt(val)[1]]
           ELSE Raise("ValueError")
      [] name = <<"C","O","U","N","T">> ->
           IF ParseInt(val) # <<>> THEN [kw EXCEPT !.count = ParseInt(val)]
           ELSE Raise("ValueError")
      [] name = <<"U","N","T","I","L">> -> handle_until(kw, ParseDate(val))
      [] name = <<"B","Y","H","O","U","R">> ->
           handle_ints(kw, FirstError([i \in 1..Len(SplitOn(val, ",")) |->
                                          int_of(SplitOn(val, ",")[i])]))
      [] OTHER -> Raise("ValueError")

\* The keyword arguments of the NAME=VALUE pairs of a rule, or ValueError.
handle_pair(kw, nv) == IF Len(nv) # 2 THEN Raise("ValueError") ELSE handle(kw, nv[1], nv[2])

RECURSIVE rule_kwargs(_, _, _)
rule_kwargs_next(pairs, i, kw) == IF kw.exc # "" THEN kw ELSE rule_kwargs(pairs, i + 1, kw)

rule_kwargs(pairs, i, kw) ==
    IF i > Len(pairs) THEN kw
    ELSE rule_kwargs_next(pairs, i, handle_pair(kw, SplitOn(pairs[i], "=")))

no_kwargs ==
    [exc |-> "", freq |-> <<>>, interval |-> 1, count |-> <<>>, until |-> <<>>,
     byhour |-> <<>>]

\* rrule(dtstart=dtstart, **rrkwargs); without FREQ the call lacks its
\* first argument, a TypeError.
make_rrule(kw, dtstart) ==
    IF kw.exc # "" THEN kw
    ELSE IF kw.freq = <<>> THEN Raise("TypeError")
    ELSE rrule(kw.freq[1], dtstart, kw.interval, kw.count, kw.until, kw.byhour)

rule_of(cut, line, dtstart) ==
    IF Len(cut) > 2 \/ (Len(cut) = 2 /\ cut[1] # <<"R","R","U","L","E">>) THEN Raise("ValueError")
    ELSE make_rrule(rule_kwargs(SplitOn(IF Len(cut) = 2 THEN cut[2] ELSE line, ";"),
                                1, no_kwargs),
                    dtstart)

\* rrulestr's _parse_rfc_rrule(line, dtstart): the rule of one line
\* NAME=VALUE;... (upper case), with or without its RRULE: prefix.
parse_rfc_rrule(line, dtstart) == rule_of(SplitOn(line, ":"), line, dtstart)

\* The date-times of a comma-separated value: Ok(their sequence), or the
\* ValueError of the first that is none.
parse_dates(value) ==
    FirstError([i \in 1..Len(SplitOn(value, ",")) |-> ParseDate(SplitOn(value, ",")[i])])

\* The rules of a sequence of rule values under one dtstart: Ok(their
\* sequence), or the exception of the first that has one.
parse_rules(values, dtstart) ==
    FirstError([i \in 1..Len(values) |-> parse_rfc_rrule(values[i], dtstart)])

\* The inclusion dates of the RDATE values.
flat(res) == IF res.exc # "" THEN res ELSE Ok(Flatten(res.val))

parse_rdates(values) == flat(FirstError([i \in 1..Len(values) |-> parse_dates(values[i])]))

\* One line NAME:VALUE of a rule text added to the properties read so
\* far; a line without a colon is the value of an RRULE, a DTSTART line
\* replaces the dtstart passed in, a name that is none of the five is
\* refused.  The lines of the model carry no parameters (NAME;PARM:VALUE).
ColonAt(line) ==
    CHOOSE i \in 1..(Len(line) + 1) :
        /\ i <= Len(line) => line[i] = ":"
        /\ \A j \in 1..(i - 1) : line[j] # ":"

exdate_property(acc, dates) ==
    IF dates.exc # "" THEN Raise("ValueError")
    ELSE [acc EXCEPT !.exdatevals = @ \o dates.val]

dtstart_property(acc, dates) ==
    IF dates.exc # "" \/ Len(dates.val) # 1 THEN Raise("ValueError")
    ELSE [acc EXCEPT !.dtstart = dates.val[1]]

named_property(acc, name, value) ==
    CASE name = <<"R","R","U","L","E">> -> [acc EXCEPT !.rrulevals = Append(@, value)]
      [] name = <<"R","D","A","T","E">> -> [acc EXCEPT !.rdatevals = Append(@, value)]
      [] name = <<"E","X","R","U","L","E">> -> [acc EXCEPT !.exrulevals = Append(@, value)]
      [] name = <<"E","X","D","A","T","E">> -> exdate_property(acc, parse_dates(value))
      [] name = <<"D","T","S","T","A","R","T">> -> dtstart_property(acc, parse_dates(value))
      [] OTHER -> Raise("ValueError")

property(acc, line, colon) ==
    IF colon > Len(line) THEN named_property(acc, <<"R","R","U","L","E">>, line)
    ELSE named_property(acc, SubSeq(line, 1, colon - 1), SubSeq(line, colon + 1, Len(line)))

RECURSIVE properties(_, _, _)
properties_next(lines, i, acc) == IF acc.exc # "" THEN acc ELSE properties(lines, i + 1, acc)

properties(lines, i, acc) ==
    IF i > Len(lines) THEN acc
    ELSE properties_next(lines, i, property(acc, lines[i], ColonAt(lines[i])))

\* The rruleset of the properties of a text.
make_rruleset(props, rrules, rdates, exrules) ==
    IF rrules.exc # "" THEN rrules
    ELSE IF rdates.exc # "" THEN rdates
    ELSE IF exrules.exc # "" THEN exrules
    ELSE Ok([kind |-> "rruleset", _rrule |-> rrules.val, _rdate |-> rdates.val,
             _exrule |-> exrules.val, _exdate |-> props.exdatevals])

\* What _parse_rfc returns for the properties of a text of several lines:
\* an rruleset for anything but a single RRULE.
parse_rfc_set(props) ==
    IF props.exc # "" THEN props
    ELSE IF Len(props.rrulevals) > 1 \/ props.rdatevals # <<>>
            \/ props.exrulevals # <<>> \/ props.exdatevals # <<>>
    THEN make_rruleset(props, parse_rules(props.rrulevals, props.dtstart),
                       parse_rdates(props.rdatevals),
                       parse_rules(props.exrulevals, props.dtstart))
    ELSE IF props.rrulevals = <<>> THEN Raise("IndexError")
    ELSE parse_rfc_rrule(props.rrulevals[1], props.dtstart)

parse_rfc(s, lines, dtstart) ==
    IF lines = <<>> THEN Raise("ValueError")
    ELSE IF Len(lines) = 1 /\ (~Contains(<<":">>, s) \/ StartsWith(s, <<"R","R","U","L","E",":">>))
    THEN parse_rfc_rrule(lines[1], dtstart)
    ELSE parse_rfc_set(properties(lines, 1,
                                  [exc |-> "", rrulevals |-> <<>>, rdatevals |-> <<>>,
                                   exrulevals |-> <<>>, exdatevals |-> <<>>,
                                   dtstart |-> dtstart]))

\* rrulestr(s, dtstart=dtstart), dateutil's _parse_rfc.  The text is put in
\* upper case and cut at white space; one line that is a bare rule gives an
\* rrule, otherwise every line is a property, and anything but a single
\* RRULE gives an rruleset.
rrulestr(text, dtstart) == parse_rfc(upper(text), split(upper(text)), dtstart)

\* ------------------------------------------ recurrent/recurrence_rule.py

_TIME_FREQS == {HOURLY, MINUTELY, SECONDLY}

\* The test with the loop over _TIME_ATTRS in force: any non-empty BYHOUR,
\* BYMINUTE or BYSECOND list counts as time-bearing.
_rule_has_time_components_byattrs(rule) ==
    \/ rule._byhour # <<>> \/ rule._byminute # <<>> \/ rule._bysecond # <<>>
    \/ rule._freq \in _TIME_FREQS

\* _rule_has_time_components(rule): only the frequency is looked at.
_rule_has_time_components(rule) == rule._freq \in _TIME_FREQS

\* is_daily_or_greater(obj), for an rrule or an rruleset.
is_daily_or_greater(obj) ==
    IF obj.kind = "rrule" THEN ~_rule_has_time_components(obj)
    ELSE ~\E i \in 1..Len(obj._rrule) : _rule_has_time_components(obj._rrule[i])

\* A Python list and a Python tuple of the same items are different values.
PyList(items) == [py |-> "list", items |-> items]

PyTuple(items) == [py |-> "tuple", items |-> items]

DictKeys == {"freq", "interval", "count", "until", "byweekday", "bymonthday",
             "bymonth", "byhour", "byminute", "bysecond", "dtstart", "bysetpos"}

\* rrule_to_dict(rule): the mapping of the fields that are not None.  An
\* rruleset has no _freq: reading it raises AttributeError.
rrule_to_dict(rule) ==
    LET truthy(list) == IF list # <<>> THEN <<list>> ELSE <<>>
        d == [k \in DictKeys |->
                CASE k = "freq" -> <<FREQNAMES[rule._freq + 1]>>
                  [] k = "interval" -> <<rule._interval>>
                  [] k = "count" -> rule._count
                  [] k = "until" ->
                       IF rule._until # <<>> THEN <<isoformat(rule._until[1])>> ELSE <<>>
                  [] k = "byweekday" -> truthy(rule._byweekday)
                  [] k = "bymonthday" -> truthy(rule._bymonthday)
                  [] k = "bymonth" -> truthy(rule._bymonth)
                  [] k = "byhour" -> truthy(rule._byhour)
                  [] k = "byminute" -> truthy(rule._byminute)
                  [] k = "bysecond" -> truthy(rule._bysecond)
                  [] k = "dtstart" -> <<isoformat(rule._dtstart)>>
                  [] k = "bysetpos" -> truthy(rule._bysetpos)]
    IN IF rule.kind # "rrule" THEN Raise("AttributeError")
       ELSE Ok([k \in {x \in DictKeys : d[x] # <<>>} |-> d[k][1]])

\* The value of the "exdates" key: the conditional expression is followed
\* by a comma, which makes the value a tuple of one item, the list.
exdates_value(dates) == PyTuple(<<PyList([i \in 1..Len(dates) |-> isoformat(dates[i])])>>)

\* rruleset_to_serializable(rrs); getattr's defaults serve an object that
\* is no rruleset.
rruleset_to_serializable(rrs) ==
    LET rules == IF rrs.kind = "rruleset" THEN rrs._rrule ELSE <<>>
        rdate == IF rrs.kind = "rruleset" THEN rrs._rdate ELSE <<>>
        exdate == IF rrs.kind = "rruleset" THEN rrs._exdate ELSE <<>>
    IN [rrules |-> PyList([i \in 1..Len(rules) |-> rrule_to_dict(rules[i]).val]),
        rdates |-> PyList([i \in 1..Len(rdate) |-> isoformat(rdate[i])]),
        exdates |-> exdates_value(exdate)]

\* ----------------------------- the natural-language engine (event_parser)

\* str(n) of a natural number.
FormatInt(n) ==
    LET RECURSIVE go(_, _)
        go(m, acc) == IF m < 10 THEN <<Digits[m + 1]>> \o acc
                      ELSE go(m \div 10, <<Digits[(m % 10) + 1]>> \o acc)
    IN go(n, <<>>)

\* The date-time literal of a datetime: the inverse of ParseDate on naive
\* whole hours.
FormatDate(dt) ==
    FormatInt(date(dt)) \o <<"T">> \o (IF hour(dt) < 10 THEN <<"0">> ELSE <<>>)
        \o FormatInt(hour(dt))

\* RE_STARTING.search(s): the phrase names its own baseline.
RE_STARTING(s) == Contains(<<"S","T","A","R","T","I","N","G">>, upper(s))

\* The weekday "next thursday" names.
Thursday == 3

\* RecurringEvent(now_date=now).parse(...) and what is read of it afterwards:
\* is_recurring, get_RFC_rrule() and dtstart.  `baseline` is <<dt>> when the
\* caller put "starting <dt>, " before the phrase, <<>> when the phrase is
\* handed over as it is.  The engine of the model knows the phrases daily,
\* weekly and every hour, and the baseline "starting next thursday"; its
\* rule text is a DTSTART line (when it has a baseline) and one RRULE line.
RecurringEvent(phrase, baseline, now) ==
    LET p == upper(phrase)
        value == CASE Contains(<<"D","A","I","L","Y">>, p) -> <<"F","R","E","Q","=","D","A","I","L","Y",";","I","N","T","E","R","V","A","L","=","1">>
                   [] Contains(<<"W","E","E","K","L","Y">>, p) -> <<"F","R","E","Q","=","W","E","E","K","L","Y",";","I","N","T","E","R","V","A","L","=","1">>
                   [] Contains(<<"E","V","E","R","Y"," ","H","O","U","R">>, p) -> <<"F","R","E","Q","=","H","O","U","R","L","Y",";","I","N","T","E","R","V","A","L","=","1">>
                   [] OTHER -> <<>>
        next == CHOOSE d \in (date(now) + 1)..(date(now) + 7) : d % 7 = Thursday
        dtstart == IF baseline # <<>> THEN baseline
                   ELSE IF Contains(<<"S","T","A","R","T","I","N","G"," ","N","E","X","T"," ","T","H","U","R","S","D","A","Y">>, p)
                        THEN <<[w |-> next * DAY, tz |-> now.tz]>>
                        ELSE <<>>
    IN [is_recurring |-> value # <<>>,
        dtstart |-> dtstart,
        rfc |-> (IF dtstart # <<>>
                 THEN <<"D","T","S","T","A","R","T",":">> \o FormatDate(dtstart[1]) \o <<"\n">>
                 ELSE <<>>) \o <<"R","R","U","L","E",":">> \o value]

\* ------------------------------------------------------- RecurrenceRule

\* The lines of the rule text that stay in `canonical`: the test for the
\* markers is the case-sensitive "in".
canonical_lines(rstr) ==
    LET lines == splitlines(rstr)
        keep(l) == ~Contains(<<"D","T","S","T","A","R","T">>, l) /\ ~Contains(<<"D","T","E","N","D">>, l)
        RECURSIVE go(_, _)
        go(i, acc) ==
            IF i > Len(lines) THEN acc
            ELSE go(i + 1, IF keep(lines[i]) THEN Append(acc, lines[i]) ELSE acc)
    IN go(1, <<>>)

\* The natural-language branch: a phrase that is no recurrence is refused,
\* the engine's baseline replaces start_dt when it differs.
natural_language(start_dt, r) ==
    IF ~r.is_recurring THEN Raise("ValueError: could not be parsed")
    ELSE Ok([input_form |-> "natural_language",
             rstr |-> r.rfc,
             start_dt |-> IF r.dtstart # <<>> /\ ~dt_eq(start_dt, r.dtstart[1])
                          THEN r.dtstart[1] ELSE start_dt])

\* The first half of __post_init__: the form of the input, the rule text
\* and the start_dt the rule is anchored at.
normalize(input_str, start_dt) ==
    IF Contains(<<"F","R","E","Q","=">>, upper(input_str))
    THEN Ok([input_form |-> "rrule", rstr |-> input_str, start_dt |-> start_dt])
    ELSE natural_language(start_dt,
             RecurringEvent(input_str,
                            IF RE_STARTING(input_str) THEN <<>> ELSE <<start_dt>>,
                            start_dt))

\* The second half of __post_init__, from the parsed rule model on: the
\* dump of rrule_to_dict(self.rr) for the log, the granularity gate, and
\* the preview.
validate(a, form, canonical, rr) ==
    IF rr.exc # "" THEN rr
    ELSE IF rrule_to_dict(rr.val).exc # "" THEN Raise(rrule_to_dict(rr.val).exc)
    ELSE IF a.daily_or_greater_only /\ ~is_daily_or_greater(rr.val)
    THEN Raise("ValueError: rrules must only specify recurring dates")
    ELSE Ok([input_str |-> a.input_str,
             start_dt |-> form.start_dt,
             num_preview |-> a.num_preview,
             daily_or_greater_only |-> a.daily_or_greater_only,
             canonical |-> canonical,
             rr |-> rr.val,
             input_form |-> form.input_form,
             preview_dts |-> getitem_slice(rr.val, a.num_preview)])

\* self.canonical and self.rr of the normalized input.
canonicalize(a, form, canonical) ==
    validate(a, form, canonical, rrulestr(join(canonical), form.start_dt))

post_init(a, n) ==
    IF n.exc # "" THEN n ELSE canonicalize(a, n.val, canonical_lines(n.val.rstr))

\* RecurrenceRule(input_str, start_dt, num_preview, daily_or_greater_only),
\* the dataclass's __init__ with its __post_init__, for the arguments a:
\* Ok(the object) or the exception that ends the construction.
RecurrenceRule(a) == post_init(a, normalize(a.input_str, a.start_dt))

\* The date of the first preview occurrence as adjust_original_datetime
\* derives it: in UTC when the occurrence is aware, as it reads otherwise.
first_date(obj) ==
    IF aware(obj.preview_dts[1]) THEN date(astimezone_utc(obj.preview_dts[1]))
    ELSE date(obj.preview_dts[1])

\* start += delta; end += delta.  Adding the delta to a datetime past the
\* end of the calendar is datetime's OverflowError.
shifted(start, end, delta) ==
    IF date(plus_days(start, delta)) > MaxDay \/ date(plus_days(end, delta)) > MaxDay
    THEN Raise("OverflowError")
    ELSE Ok(<<plus_days(start, delta), plus_days(end, delta)>>)

\* The operation without its check of the delta's sign.
adjust_unasserted(obj, start, end) ==
    IF obj.preview_dts = <<>> THEN Raise("IndexError")
    ELSE IF date(start) = first_date(obj) THEN Ok(<<start, end>>)
    ELSE shifted(start, end, first_date(obj) - date(start))

\* self.adjust_original_datetime(start, end): Ok(<<start, end>>) or the
\* exception.
adjust_original_datetime(obj, start, end) ==
    IF obj.preview_dts = <<>> THEN Raise("IndexError")
    ELSE IF date(start) = first_date(obj) THEN Ok(<<start, end>>)
    ELSE IF first_date(obj) - date(start) < 0 THEN Raise("AssertionError")
    ELSE shifted(start, end, first_date(obj) - date(start))

\* ---------------------------------------------------------- the inputs

\* The largest number of rules of a composite rule model.
MaxRules == 2

Zones == {Naive, UTC, Brisbane, NewYork}

\* The datetimes a caller passes: in the morning and late in the evening
\* of the first days of the calendar, naive and in every zone.
CallerDts == {datetime(d, h, tz) : d \in 1..2, h \in {5, 20}, tz \in Zones}

\* The texts a caller passes as input_str: formal rules in either case,
\* bounded and unbounded, with a start or an end marker in either case at
\* the head, at the tail and inside a line, composite rule texts, a
\* malformed rule, and phrases for the natural-language engine.
InputStrs ==
    { <<"F","R","E","Q","=","D","A","I","L","Y">>,
      <<"R","R","U","L","E",":","F","R","E","Q","=","D","A","I","L","Y",";","C","O","U","N","T","=","2">>,
      <<"f","r","e","q","=","w","e","e","k","l","y",";","c","o","u","n","t","=","2">>,
      <<"F","R","E","Q","=","H","O","U","R","L","Y",";","C","O","U","N","T","=","2">>,
      <<"r","r","u","l","e",":","f","r","e","q","=","m","i","n","u","t","e","l","y",";","c","o","u","n","t","=","2">>,
      <<"F","R","E","Q","=","S","E","C","O","N","D","L","Y",";","I","N","T","E","R","V","A","L","=","2",";","C","O","U","N","T","=","2">>,
      <<"F","R","E","Q","=","D","A","I","L","Y",";","U","N","T","I","L","=","2","T","0","5">>,
      <<"F","R","E","Q","=","D","A","I","L","Y",";","U","N","T","I","L","=","2","T","0","5","Z">>,
      <<"F","R","E","Q","=","D","A","I","L","Y",";","B","Y","H","O","U","R","=","9">>,
      <<"F","R","E","Q","=","N","E","V","E","R">>,
      <<"D","T","S","T","A","R","T",":","1","T","0","0","\n","R","R","U","L","E",":","F","R","E","Q","=","D","A","I","L","Y",";","C","O","U","N","T","=","2">>,
      <<"d","t","s","t","a","r","t",":","1","T","0","0","\n","r","r","u","l","e",":","f","r","e","q","=","d","a","i","l","y",";","c","o","u","n","t","=","2">>,
      <<"R","R","U","L","E",":","F","R","E","Q","=","D","A","I","L","Y","\n","D","t","S","t","a","r","t",":","1","T","0","0","Z">>,
      <<"R","R","U","L","E",":","F","R","E","Q","=","D","A","I","L","Y",";","C","O","U","N","T","=","2","\n","D","T","E","N","D",":","3","T","0","0">>,
      <<"R","R","U","L","E",":","F","R","E","Q","=","D","A","I","L","Y",";","C","O","U","N","T","=","2","\n","d","t","e","n","d",":","3","T","0","0">>,
      <<"F","R","E","Q","=","D","A","I","L","Y",";","C","O","U","N","T","=","2"," ","d","t","s","t","a","r","t",":","0","T","0","0">>,
      <<"F","R","E","Q","=","D","A","I","L","Y",";","C","O","U","N","T","=","2"," ","D","T","S","T","A","R","T",":","0","T","0","0">>,
      <<"R","R","U","L","E",":","F","R","E","Q","=","D","A","I","L","Y",";","C","O","U","N","T","=","2","\n","R","D","A","T","E",":","3","T","0","5">>,
      <<"R","R","U","L","E",":","F","R","E","Q","=","H","O","U","R","L","Y",";","C","O","U","N","T","=","2","\n","R","R","U","L","E",":","F","R","E","Q","=","D","A","I","L","Y",";","C","O","U","N","T","=","2">>,
      <<"F","R","E","Q","=","D","A","I","L","Y","\n","E","X","D","A","T","E",":","2","T","0","5">>,
      <<"d","a","i","l","y">>,
      <<"e","v","e","r","y"," ","h","o","u","r">>,
      <<"s","t","a","r","t","i","n","g"," ","n","e","x","t"," ","t","h","u","r","s","d","a","y",","," ","w","e","e","k","l","y">>,
      <<"h","e","l","l","o">> }

\* The rule models is_daily_or_greater and the serialisers are applied to:
\* single rules of every frequency, with and without an explicit BYHOUR,
\* and rrulesets of up to MaxRules rules with inclusion dates, exclusion
\* dates and an exclusion rule.
ModelRules ==
    {rrule(f, datetime(1, 5, UTC), 1, <<>>, <<>>, bh).val :
        f \in YEARLY..SECONDLY, bh \in {<<>>, <<9>>}}

ModelDates == {<<>>, <<datetime(2, 5, UTC)>>, <<datetime(2, 5, UTC), datetime(1, 5, UTC)>>}

RuleSeqs == UNION {[1..n -> ModelRules] : n \in 0..MaxRules}

RuleModels ==
    ModelRules \cup
    {[kind |-> "rruleset", _rrule |-> rs, _rdate |-> rd, _exrule |-> xr, _exdate |-> xd] :
        rs \in RuleSeqs, rd \in ModelDates, xd \in ModelDates,
        xr \in {<<>>, <<rrule(HOURLY, datetime(1, 5, UTC), 1, <<>>, <<>>, <<>>).val>>}}

\* --------------------------------------------------------------- the state

\* self: <<>>, or <<the RecurrenceRule object>> once it is constructed.
\* err:  the exception that ended the construction, "" when there is none.
\* args: <<>>, or <<the arguments of the constructor>> once it was called.
\* call: <<>>, or <<the last call of adjust_original_datetime>>: its start
\*       and end, what it returned or raised (ret), and, once the pair it
\*       returned was passed to it again, what that returned (again).
\* obj, verdict, rule_dict, serial: a rule model, and what
\*       is_daily_or_greater, rrule_to_dict and rruleset_to_serializable
\*       make of it.
VARIABLES self, err, args, call, obj, verdict, rule_dict, serial

vars == <<self, err, args, call, obj, verdict, rule_dict, serial>>

object_vars == <<self, err, args, call>>

model_vars == <<obj, verdict, rule_dict, serial>>

Init ==
    /\ self = <<>> /\ err = "" /\ args = <<>> /\ call = <<>>
    /\ obj = <<>> /\ verdict = <<>> /\ rule_dict = <<>> /\ serial = <<>>

\* The state after a call of the constructor with the arguments a, which
\* returned the object or raised r.exc.
Returned(a, r) ==
    /\ args' = <<a>>
    /\ self' = IF r.exc = "" THEN <<r.val>> ELSE <<>>
    /\ err' = r.exc

Constructed(a) == Returned(a, RecurrenceRule(a))

\* RecurrenceRule(input_str, start_dt, num_preview, daily_or_greater_only)
Construct ==
    /\ args = <<>>
    /\ \E input_str \in InputStrs, start_dt \in CallerDts,
          num_preview \in 0..MaxPreview, daily_or_greater_only \in BOOLEAN :
          Constructed([input_str |-> input_str, start_dt |-> start_dt,
                       num_preview |-> num_preview,
                       daily_or_greater_only |-> daily_or_greater_only])
    /\ UNCHANGED <<call, model_vars>>

\* self.adjust_original_datetime(start, end), with an end five hours after
\* start in start's zone, or one hour after it in UTC.
Adjust ==
    /\ self # <<>> /\ call = <<>>
    /\ \E start \in CallerDts :
          \E end \in {[w |-> start.w + 5 * Hour, tz |-> start.tz]}
                     \cup (IF aware(start)
                           THEN {[w |-> Instant(start) + Hour, tz |-> UTC]}
                           ELSE {}) :
             call' = <<[start |-> start, end |-> end,
                        ret |-> adjust_original_datetime(self[1], start, end),
                        again |-> <<>>]>>
    /\ UNCHANGED <<self, err, args, model_vars>>

\* The pair a call returned, passed to adjust_original_datetime again.
Readjust ==
    /\ call # <<>> /\ call[1].ret.exc = "" /\ call[1].again = <<>>
    /\ call' = <<[call[1] EXCEPT !.again =
                    <<adjust_original_datetime(self[1], call[1].ret.val[1],
                                               call[1].ret.val[2])>>]>>
    /\ UNCHANGED <<self, err, args, model_vars>>

Next == Construct \/ Adjust \/ Readjust

Spec == Init /\ [][Next]_vars

\* The pure functions on a rule model: is_daily_or_greater and the two
\* serialisers, each applied to a model drawn from RuleModels.
InitModel ==
    /\ self = <<>> /\ err = "" /\ args = <<>> /\ call = <<>>
    /\ obj \in {<<m>> : m \in RuleModels}
    /\ verdict = <<>> /\ rule_dict = <<>> /\ serial = <<>>

IsDailyOrGreater ==
    /\ verdict = <<>>
    /\ verdict' = <<is_daily_or_greater(obj[1])>>
    /\ UNCHANGED <<object_vars, obj, rule_dict, serial>>

RuleToDict ==
    /\ rule_dict = <<>>
    /\ rule_dict' = <<rrule_to_dict(obj[1])>>
    /\ UNCHANGED <<object_vars, obj, verdict, serial>>

Serialize ==
    /\ serial = <<>>
    /\ serial' = <<rruleset_to_serializable(obj[1])>>
    /\ UNCHANGED <<object_vars, obj, verdict, rule_dict>>

NextModel == IsDailyOrGreater \/ RuleToDict \/ Serialize

SpecModel == InitModel /\ [][NextModel]_vars

\* --------------------------------------------------------------- the claims

\* The line names a start or an end marker, in whatever case.
ReferencesMarker(line) ==
    Contains(<<"D","T","S","T","A","R","T">>, upper(line)) \/ Contains(<<"D","T","E","N","D">>, upper(line))

\* C1: once a RecurrenceRule is constructed, no line of its `canonical`
\* names DTSTART or DTEND, in upper case, lower case or mixed case, at the
\* head of the line or inside it.
C1_CanonicalHasNoMarker ==
    self # <<>> =>
        \A i \in 1..Len(self[1].canonical) : ~ReferencesMarker(self[1].canonical[i])

\* The sub-rules of a rule model: a single rule is its own, a composite
\* model has those of its rule list.
SubRules(m) == IF m.kind = "rrule" THEN <<m>> ELSE m._rrule

HasTimeFrequency(m) ==
    \E i \in 1..Len(SubRules(m)) : SubRules(m)[i]._freq \in {HOURLY, MINUTELY, SECONDLY}

\* The rule model the constructor parses from its arguments: what rrulestr
\* makes of the canonical lines of the normalized input.
ParsedModel(a) ==
    IF normalize(a.input_str, a.start_dt).exc # ""
    THEN normalize(a.input_str, a.start_dt)
    ELSE rrulestr(join(canonical_lines(normalize(a.input_str, a.start_dt).val.rstr)),
                  normalize(a.input_str, a.start_dt).val.start_dt)

\* C2: with daily_or_greater_only true, a construction whose parsed rule
\* model has a sub-rule of hourly, minutely or secondly frequency ends with
\* the granularity error and no object; so an object constructed with the
\* flag true has no such sub-rule.
C2_TimeFrequencyRefused ==
    /\ (args # <<>> /\ args[1].daily_or_greater_only /\ ParsedModel(args[1]).exc = ""
            /\ HasTimeFrequency(ParsedModel(args[1]).val))
         => (self = <<>> /\ err = "ValueError: rrules must only specify recurring dates")
    /\ (self # <<>> /\ self[1].daily_or_greater_only) => ~HasTimeFrequency(self[1].rr)

C4_Idempotent ==
    (call # <<>> /\ call[1].again # <<>>) => call[1].again[1] = call[1].ret

\* A zoned pair was shifted by the first call and passed to the second.
C4_ShiftedPairReapplied ==
    /\ call # <<>> /\ call[1].again # <<>>
    /\ aware(call[1].start)
    /\ call[1].ret.val[1] # call[1].start

\* C5: a pair adjust_original_datetime returns is the pair it was given with
\* both members moved by first occurrence date - start date, and end - start
\* of the returned pair is end - start of the given one.
C5_DurationPreserved ==
    (call # <<>> /\ call[1].ret.exc = "") =>
        /\ call[1].ret.val[1] = plus_days(call[1].start,
                                          first_date(self[1]) - date(call[1].start))
        /\ call[1].ret.val[2] = plus_days(call[1].end,
                                          first_date(self[1]) - date(call[1].start))
        /\ dt_sub(call[1].ret.val[2], call[1].ret.val[1])
             = dt_sub(call[1].end, call[1].start)

\* C6: adjust_original_datetime raises the AssertionError when the date of
\* the first preview occurrence is before the date of start, and a pair it
\* returns has neither member before the one it was given.
C6_NeverBackward ==
    (call # <<>> /\ self[1].preview_dts # <<>>) =>
        /\ first_date(self[1]) < date(call[1].start)
             => call[1].ret.exc = "AssertionError"
        /\ call[1].ret.exc = ""
             => /\ ~dt_lt(call[1].ret.val[1], call[1].start)
                /\ ~dt_lt(call[1].ret.val[2], call[1].end)

\* A call with a start after the date of the first occurrence was refused.
C6_BackwardRefused ==
    /\ call # <<>> /\ call[1].ret.exc = "AssertionError"
    /\ first_date(self[1]) < date(call[1].start)

\* C7: on a constructed object with a preview, the date of the first
\* preview occurrence as adjust_original_datetime derives it is not before
\* the date of the object's start_dt, and a call whose start is that
\* start_dt does not raise the AssertionError.
C7_FirstDateNotBeforeStart ==
    /\ (self # <<>> /\ self[1].preview_dts # <<>>)
         => first_date(self[1]) >= date(self[1].start_dt)
    /\ (call # <<>> /\ call[1].start = self[1].start_dt)
         => call[1].ret.exc # "AssertionError"

\* The number of occurrences a rule model produces.
Available(rr) == Len(iter_rrule(rr, sys_maxsize))

\* C8: the preview of a constructed object has min(num_preview, number of
\* occurrences of its rule model) members, each later than the one before.
C8_PreviewLength ==
    self # <<>> =>
        /\ Len(self[1].preview_dts) = Min(self[1].num_preview, Available(self[1].rr))
        /\ \A i \in 1..(Len(self[1].preview_dts) - 1) :
              dt_lt(self[1].preview_dts[i], self[1].preview_dts[i + 1])

\* C9: rruleset_to_serializable of a composite model is a mapping of
\* exactly rrules, rdates and exdates: the list of the sub-rules' mappings
\* in order, the list of the inclusion timestamps and the list of the
\* exclusion timestamps, one item per date.
C9_FlatLists ==
    (serial # <<>> /\ obj[1].kind = "rruleset") =>
        /\ DOMAIN serial[1] = {"rrules", "rdates", "exdates"}
        /\ serial[1].rrules
             = PyList([i \in 1..Len(obj[1]._rrule) |-> rrule_to_dict(obj[1]._rrule[i]).val])
        /\ serial[1].rdates
             = PyList([i \in 1..Len(obj[1]._rdate) |-> isoformat(obj[1]._rdate[i])])
        /\ serial[1].exdates
             = PyList([i \in 1..Len(obj[1]._exdate) |-> isoformat(obj[1]._exdate[i])])

\* C10: adjust_original_datetime returns a pair only on an object with a
\* preview; on an object constructed with num_preview = 0, or one whose
\* rule model has no occurrence, it raises the IndexError of the empty
\* preview.
C10_EmptyPreviewRefused ==
    call # <<>> =>
        /\ call[1].ret.exc = "" => self[1].preview_dts # <<>>
        /\ (self[1].num_preview = 0 \/ Available(self[1].rr) = 0)
             => call[1].ret.exc = "IndexError"
====
